---- MODULE Spec2Model ----
(***************************************************************************)
(* Scaled dot-product (QKV) attention of the notebook                      *)
(* C4_W1_Ungraded_Lab_2_QKV_Attention.ipynb: embed, softmax,               *)
(* calculate_weights and attention_qkv as the notebook's code cells define *)
(* them, and the cells that call them.                                     *)
(*                                                                         *)
(* Numbers.  The notebook computes in float64.  A float is modelled as a   *)
(* record [k, v]: k = "fin" with v the value in units of 1/Scale (fixed    *)
(* point, every product and quotient rounded to the nearest unit),         *)
(* k = "inf" with v the sign, or k = "nan".  exp overflows to +inf above   *)
(* 709 and underflows to 0 below -745, as float64's does.  The inputs are  *)
(* chosen so that every score is either small (|x| <= ExpDomain) or beyond *)
(* those thresholds.                                                       *)
(***************************************************************************)
EXTENDS Integers, Sequences, FiniteSets, TLC

\* ------------------------------------------------------------ bounds
\* longest token sequence (rows of queries, of keys)
MaxLen == 2
\* largest embedding dimension of queries and keys
MaxD == 2
\* largest embedding dimension of values
MaxE == 2
\* units per 1.0 of the fixed-point carrier
Scale == 1000
\* a large embedding entry: every score it takes part in is 0 or beyond
\* exp's overflow and underflow thresholds, also after division by sqrt(d)
Big == 2000
\* terms of the series that evaluates exp on the carrier
ExpTerms == 16
\* largest |x| (in units of 1.0) the series is used for
ExpDomain == 4

\* ------------------------------------------------------------ floats
Fin(x) == [k |-> "fin", v |-> x]
PosInf == [k |-> "inf", v |-> 1]
NegInf == [k |-> "inf", v |-> -1]
NaN == [k |-> "nan", v |-> 0]
One == Fin(Scale)
Zero == Fin(0)

IsFin(x) == x.k = "fin"
IsNaN(x) == x.k = "nan"
IsInf(x) == x.k = "inf"

Sgn(n) == IF n > 0 THEN 1 ELSE IF n < 0 THEN -1 ELSE 0
Abs(n) == IF n < 0 THEN -n ELSE n

\* a / b rounded to the nearest integer (half up), b > 0, without forming 2a
RoundDiv(a, b) ==
  LET q == a \div b
      r == a % b
  IN  IF 2 * r >= b THEN q + 1 ELSE q

\* (a * Scale) / b rounded to the nearest unit, b > 0, by long division
ScaledDiv(a, b) ==
  LET q == a \div b
      r == a % b
  IN  q * Scale + RoundDiv(r * Scale, b)

\* float addition
FAdd(x, y) ==
  IF IsNaN(x) \/ IsNaN(y) THEN NaN
  ELSE IF IsInf(x) /\ IsInf(y) THEN (IF x.v = y.v THEN x ELSE NaN)
  ELSE IF IsInf(x) THEN x
  ELSE IF IsInf(y) THEN y
  ELSE Fin(x.v + y.v)

\* float multiplication
FMul(x, y) ==
  IF IsNaN(x) \/ IsNaN(y) THEN NaN
  ELSE IF IsInf(x) \/ IsInf(y)
       THEN (IF Sgn(x.v) * Sgn(y.v) = 0 THEN NaN
             ELSE IF Sgn(x.v) * Sgn(y.v) > 0 THEN PosInf ELSE NegInf)
  ELSE Fin(RoundDiv(x.v * y.v, Scale))

\* float division: x / 0 is +-inf, 0 / 0 and inf / inf are nan
FDiv(x, y) ==
  IF IsNaN(x) \/ IsNaN(y) THEN NaN
  ELSE IF IsInf(x) /\ IsInf(y) THEN NaN
  ELSE IF IsInf(x) THEN (IF x.v * (IF y.v < 0 THEN -1 ELSE 1) > 0 THEN PosInf ELSE NegInf)
  ELSE IF IsInf(y) THEN Zero
  ELSE IF y.v = 0
       THEN (IF x.v = 0 THEN NaN ELSE IF x.v > 0 THEN PosInf ELSE NegInf)
  ELSE IF y.v > 0 THEN Fin(ScaledDiv(x.v, y.v))
  ELSE Fin(ScaledDiv(-x.v, -y.v))

\* float comparison x == y (nan equals nothing)
FEq(x, y) == ~IsNaN(x) /\ ~IsNaN(y) /\ x = y

\* the series 1 + x + x^2/2! + ... on the carrier, for 0 <= x <= ExpDomain
RECURSIVE ExpSeries(_, _, _)
ExpSeries(x, term, n) ==
  IF n > ExpTerms \/ term = 0 THEN 0
  ELSE term + ExpSeries(x, RoundDiv(term * x, n * Scale), n + 1)

\* np.exp on float64: +inf above 709, 0 below -745
FExp(x) ==
  IF IsNaN(x) THEN NaN
  ELSE IF IsInf(x) THEN (IF x.v > 0 THEN PosInf ELSE Zero)
  ELSE IF x.v > 709 * Scale THEN PosInf
  ELSE IF x.v < -745 * Scale THEN Zero
  ELSE IF x.v >= 0 THEN Fin(ExpSeries(x.v, Scale, 1))
  ELSE Fin(RoundDiv(Scale * Scale, ExpSeries(-x.v, Scale, 1)))

\* integer square root, rounded down, by bisection on lo <= sqrt(n) < hi
RECURSIVE ISqrtIn(_, _, _)
ISqrtIn(n, lo, hi) ==
  IF hi - lo <= 1 THEN lo
  ELSE LET mid == (lo + hi) \div 2
       IN  IF mid * mid <= n THEN ISqrtIn(n, mid, hi) ELSE ISqrtIn(n, lo, mid)

\* np.sqrt of a small non-negative integer d, in units
FSqrtInt(d) == Fin(ISqrtIn(d * Scale * Scale, 0, d * Scale + 1))

\* ------------------------------------------------------------ arrays
\* a 2-D array is [rows, cols, a]: shape (rows, cols), entries a[i][j], 1-based
EmptyArray == [rows |-> 0, cols |-> 0, a |-> <<>>]

\* x.T
Transpose(x) ==
  [rows |-> x.cols, cols |-> x.rows,
   a |-> [i \in 1..x.cols |-> [j \in 1..x.rows |-> x.a[j][i]]]]

\* the floats of a sequence added left to right, starting from 0.0
RECURSIVE FSum(_)
FSum(s) == IF Len(s) = 0 THEN Zero ELSE FAdd(FSum(SubSeq(s, 1, Len(s) - 1)), s[Len(s)])

\* the result of a call: the array returned, or the exception raised
Ok(x) == [status |-> "ok", err |-> "", val |-> x]
Raise(e) == [status |-> "error", err |-> e, val |-> EmptyArray]
NotCalled == [status |-> "none", err |-> "", val |-> EmptyArray]

Min(a, b) == IF a < b THEN a ELSE b

\* np.dot without the check of the inner dimensions: the shorter one is used
np_dot_unchecked(x, y) ==
  Ok([rows |-> x.rows, cols |-> y.cols,
      a |-> [i \in 1..x.rows |-> [j \in 1..y.cols |->
               FSum([t \in 1..Min(x.cols, y.rows) |-> FMul(x.a[i][t], y.a[t][j])])]]])

\* np.dot(x, y) of two 2-D arrays: ValueError (shapes not aligned) unless
\* x's columns are as many as y's rows
np_dot(x, y) ==
  IF x.cols # y.rows THEN Raise("ValueError")
  ELSE Ok([rows |-> x.rows, cols |-> y.cols,
           a |-> [i \in 1..x.rows |-> [j \in 1..y.cols |->
                    FSum([t \in 1..x.cols |-> FMul(x.a[i][t], y.a[t][j])])]]])

\* ------------------------------------------------------------ tokenization
\* A sentence is a sequence of one-character strings; a word is a sequence too.
UpperCase == <<"A", "B", "C", "D", "E", "F", "G", "H", "I", "J", "K", "L", "M",
               "N", "O", "P", "Q", "R", "S", "T", "U", "V", "W", "X", "Y", "Z">>
LowerCase == <<"a", "b", "c", "d", "e", "f", "g", "h", "i", "j", "k", "l", "m",
               "n", "o", "p", "q", "r", "s", "t", "u", "v", "w", "x", "y", "z">>

\* sentence.lower(): every upper-case letter becomes its lower-case letter
lower(sentence) ==
  [i \in 1..Len(sentence) |->
     IF \E u \in 1..Len(UpperCase) : UpperCase[u] = sentence[i]
     THEN LowerCase[CHOOSE u \in 1..Len(UpperCase) : UpperCase[u] = sentence[i]]
     ELSE sentence[i]]

\* sentence.split() without a separator: runs of spaces separate, and no piece
\* is empty
RECURSIVE split_on_runs(_)
split_on_runs(sentence) ==
  IF \A i \in 1..Len(sentence) : sentence[i] = " " THEN <<>>
  ELSE IF sentence[1] = " " THEN split_on_runs(Tail(sentence))
  ELSE IF \A i \in 1..Len(sentence) : sentence[i] # " " THEN <<sentence>>
  ELSE LET sp == CHOOSE i \in 1..Len(sentence) :
                   sentence[i] = " " /\ \A j \in 1..(i - 1) : sentence[j] # " "
       IN  <<SubSeq(sentence, 1, sp - 1)>>
             \o split_on_runs(SubSeq(sentence, sp + 1, Len(sentence)))

\* sentence.split(" "): every single space separates, so a piece may be empty
RECURSIVE split(_)
split(sentence) ==
  IF \A i \in 1..Len(sentence) : sentence[i] # " " THEN <<sentence>>
  ELSE LET sp == CHOOSE i \in 1..Len(sentence) :
                   sentence[i] = " " /\ \A j \in 1..(i - 1) : sentence[j] # " "
       IN  <<SubSeq(sentence, 1, sp - 1)>>
             \o split(SubSeq(sentence, sp + 1, Len(sentence)))

\* tokenize that passes over a word that raises KeyError
tokenize_known_only(sentence, token_mapping) ==
  LET words == split(lower(sentence))
      known(w) == w \in DOMAIN token_mapping
      kept == SelectSeq(words, known)
  IN  [i \in 1..Len(kept) |-> token_mapping[kept[i]]]

\* tokenize(sentence, token_mapping): a word that raises KeyError becomes -1
tokenize(sentence, token_mapping) ==
  LET words == split(lower(sentence))
  IN  [i \in 1..Len(words) |->
         IF words[i] \in DOMAIN token_mapping THEN token_mapping[words[i]] ELSE -1]

\* en_words and fr_words, the word2int dictionaries: two words each
en_words == (<<"a">> :> 0) @@ (<<"b">> :> 1)
fr_words == (<<"a">> :> 0) @@ (<<"a", "b">> :> 1)

\* ------------------------------------------------------------ embeddings
\* tokens of a sentence: the vocabulary indices 0 and 1, and -1 for an unknown word
Tokens == {-1, 0, 1}
Sentences == UNION {[1..l -> Tokens] : l \in 0..MaxLen}

\* the sentences the keys come from: those, and one word said LongLen times
LongLen == 6
KeySentences == Sentences \cup {[i \in 1..LongLen |-> t] : t \in Tokens}

\* en_embeddings, a (2, d) table: the word 0 is (1, 1, ..), the word 1 is (-1, 0, ..)
en_embeddings(d) ==
  [rows |-> 2, cols |-> d,
   a |-> [t \in 1..2 |-> [j \in 1..d |->
            IF t = 1 THEN One ELSE IF j = 1 THEN Fin(-Scale) ELSE Zero]]]

\* fr_embeddings, a (2, d) table: the word 0 is (1, 1, ..), the word 1 is (Big, 0, ..)
fr_embeddings(d) ==
  [rows |-> 2, cols |-> d,
   a |-> [t \in 1..2 |-> [j \in 1..d |->
            IF t = 1 THEN One ELSE IF j = 1 THEN Fin(Big * Scale) ELSE Zero]]]

\* embed without its test for -1: embeddings[-1] is the last row of the table
embed_unchecked(tokens, embeddings) ==
  LET embed_size == embeddings.cols
  IN  [rows |-> Len(tokens), cols |-> embed_size,
       a |-> [i \in 1..Len(tokens) |-> [j \in 1..embed_size |->
                IF tokens[i] = -1 THEN embeddings.a[embeddings.rows][j]
                ELSE embeddings.a[tokens[i] + 1][j]]]]

\* embed(tokens, embeddings): one row per token, a row of zeros for the token -1
embed(tokens, embeddings) ==
  LET embed_size == embeddings.cols
  IN  [rows |-> Len(tokens), cols |-> embed_size,
       a |-> [i \in 1..Len(tokens) |-> [j \in 1..embed_size |->
                IF tokens[i] = -1 THEN Zero ELSE embeddings.a[tokens[i] + 1][j]]]]

\* ------------------------------------------------------------ attention
\* np.exp(x), entry by entry
np_exp(x) ==
  [rows |-> x.rows, cols |-> x.cols,
   a |-> [i \in 1..x.rows |-> [j \in 1..x.cols |-> FExp(x.a[i][j])]]]

\* np.sum(x, axis): axis 0 adds down each column, axis 1 along each row
np_sum(x, axis) ==
  IF axis = 0
  THEN [j \in 1..x.cols |-> FSum([i \in 1..x.rows |-> x.a[i][j]])]
  ELSE [i \in 1..x.rows |-> FSum(x.a[i])]

\* x / np.expand_dims(s, axis=1): x of shape (m, n) divided by the column (Len(s), 1)
\* under numpy's broadcasting; ValueError when m and Len(s) differ and neither is 1
DivideByColumn(x, s) ==
  LET m == x.rows
      l == Len(s)
      r == IF m = 1 THEN l ELSE m
  IN  IF m # l /\ m # 1 /\ l # 1 THEN Raise("ValueError")
      ELSE Ok([rows |-> r, cols |-> x.cols,
               a |-> [i \in 1..r |-> [j \in 1..x.cols |->
                        FDiv(x.a[IF m = 1 THEN 1 ELSE i][j],
                             s[IF l = 1 THEN 1 ELSE i])]]])

\* softmax(x, axis) of the code cell:
\*   np.exp(x) / np.expand_dims(np.sum(np.exp(x), axis=axis), axis=1)
softmax(x, axis) == DivideByColumn(np_exp(x), np_sum(np_exp(x), axis))

\* the assert compiled away (python -O): the weights are returned unchecked
AssertRowZero_disabled(weights) == Ok(weights)

\* the assert of calculate_weights: weights.sum(axis=1)[0] == 1
\* (IndexError when weights has no row 0)
AssertRowZero(weights) ==
  IF weights.rows = 0 THEN Raise("IndexError")
  ELSE IF ~FEq(np_sum(weights, 1)[1], One) THEN Raise("AssertionError")
  ELSE Ok(weights)

\* calculate_weights that scores the keys against themselves
calculate_weights_self(queries, keys) ==
  LET dot == np_dot(keys, Transpose(keys))
  IN  IF dot.status # "ok" THEN dot
      ELSE LET weights == softmax(dot.val, 1)
           IN  IF weights.status # "ok" THEN weights
               ELSE AssertRowZero(weights.val)

\* calculate_weights(queries, keys) of the code cell
calculate_weights(queries, keys) ==
  LET dot == np_dot(queries, Transpose(keys))
  IN  IF dot.status # "ok" THEN dot
      ELSE LET weights == softmax(dot.val, 1)
           IN  IF weights.status # "ok" THEN weights
               ELSE AssertRowZero(weights.val)

\* attention_qkv multiplying the raw scores, not the weights, by the values
attention_qkv_from_scores(queries, keys, values) ==
  LET weights == calculate_weights(queries, keys)
  IN  IF weights.status # "ok" THEN weights
      ELSE np_dot(np_dot(queries, Transpose(keys)).val, values)

\* attention_qkv returning the weights in place of the product
attention_qkv_returns_weights(queries, keys, values) ==
  LET weights == calculate_weights(queries, keys)
  IN  IF weights.status # "ok" THEN weights
      ELSE IF weights.val.cols # values.rows THEN Raise("ValueError")
      ELSE weights

\* attention_qkv(queries, keys, values) of the code cell
attention_qkv(queries, keys, values) ==
  LET weights == calculate_weights(queries, keys)
  IN  IF weights.status # "ok" THEN weights
      ELSE np_dot(weights.val, values)

\* ------------------------------------------------------------ the notebook's run
\* The notebook's own arguments are the embedded example sentences; their
\* entries come from data files that are not part of the repository, so only
\* their shapes are kept here, and cell 4's effect on them is the output the
\* notebook records.
ExampleArray(m, n) == [rows |-> m, cols |-> n, a |-> <<>>]

\* the output recorded under cell 4: the shape, and rows 0..1, columns 0..9 of
\* attention_qkv_result, in units of 1e-8
RecordedOutput ==
  [shape |-> <<14, 300>>,
   elements |->
     << <<-3864460, -496374, 273612, 5069200, -2290499,
          1286620, -701638, -6121415, -3045, 1802810>>,
        <<-4712142, 41179, 654549, 4818894, -2439084,
          1529123, -407338, -6125528, -650376, 1205164>> >>]

\* the "Expected output" the notebook documents for cell 4, in units of 1e-8
ExpectedOutput ==
  [shape |-> <<14, 300>>,
   elements |->
     << <<-4039161, -275749, 389873, 4842744, -2472726,
          1435613, -370253, -6196860, -206159, 1615228>>,
        <<-4083253, -245985, 409068, 4830341, -2479128,
          1447497, -355203, -6196036, -241327, 1582606>> >>]

NoOutput == [shape |-> <<>>, elements |-> <<>>]

\* ------------------------------------------------------------ the state
VARIABLES
  run,                   \* what runs: "call", "notebook", "softmax", "tokenize", "callers"
  cell,                  \* the step that runs next
  queries,               \* the arguments of the calls
  keys,
  values,
  alignment,             \* what calculate_weights(queries, keys) gave
  attention_qkv_result,  \* what attention_qkv(queries, keys, values) gave
  printed,               \* what cell 4 printed
  factor,                \* the constant both queries and keys are multiplied by
  scaled_alignment,      \* what calculate_weights gave on the multiplied arguments
  softmax_x,             \* the argument x of a call of softmax
  softmax_axis,          \* its argument axis
  softmax_out,           \* what it gave
  sentence,              \* the argument of tokenize
  embeddings,            \* the embedding matrix passed to embed
  tokenized,             \* what tokenize gave
  embedded,              \* what embed gave
  caller_args,           \* per concurrent caller: its queries, keys and values
  caller_pc,             \* per caller: the statement of attention_qkv it is at
  caller_dot,            \* per caller: the local variable dot
  caller_weights,        \* per caller: the local variable weights
  caller_result          \* per caller: what its call gave

callVars == <<queries, keys, values, alignment, attention_qkv_result, printed>>
scaledVars == <<factor, scaled_alignment>>
softmaxVars == <<softmax_x, softmax_axis, softmax_out>>
tokenizeVars == <<sentence, embeddings, tokenized, embedded>>
callerVars == <<caller_args, caller_pc, caller_dot, caller_weights, caller_result>>
vars == <<run, cell, callVars, scaledVars, softmaxVars, tokenizeVars, callerVars>>

\* the parts of the state a run does not use
NoCalls ==
  /\ queries = EmptyArray /\ keys = EmptyArray /\ values = EmptyArray
  /\ alignment = NotCalled /\ attention_qkv_result = NotCalled /\ printed = NoOutput
NoScaled == factor = One /\ scaled_alignment = NotCalled
NoSoftmax == softmax_x = EmptyArray /\ softmax_axis = 0 /\ softmax_out = NotCalled
NoTokenize ==
  /\ sentence = <<>> /\ embeddings = EmptyArray
  /\ tokenized = <<>> /\ embedded = EmptyArray
NoCallers ==
  /\ caller_args = <<>> /\ caller_pc = <<>>
  /\ caller_dot = <<>> /\ caller_weights = <<>> /\ caller_result = <<>>

\* ------------------------------------------------------------ the calls
\* the ways the arguments' shapes can disagree
Shapes == {"aligned", "dim", "fewer", "more"}

OtherDim(d) == (d % MaxD) + 1

\* the arguments a caller passes: embedded sentences, of any length from 0,
\* with the shapes aligned or not
InitCall ==
  /\ run = "call"
  /\ \E tq \in Sentences, tk \in KeySentences, d \in 1..MaxD, e \in 1..MaxE, sh \in Shapes :
       /\ queries = embed(tq, fr_embeddings(d))
       /\ embeddings = en_embeddings(IF sh = "dim" THEN OtherDim(d) ELSE d)
       /\ keys = embed(tk, embeddings)
       /\ values = embed(IF sh = "fewer" /\ Len(tk) > 0 THEN SubSeq(tk, 1, Len(tk) - 1)
                         ELSE IF sh = "more" THEN Append(tk, 0)
                         ELSE tk,
                         en_embeddings(e))
  /\ cell = 3

\* the worked example's sentences
sentence_en ==
  <<"T", "h", "e", " ", "a", "g", "r", "e", "e", "m", "e", "n", "t", " ", "o", "n",
    " ", "t", "h", "e", " ", "E", "u", "r", "o", "p", "e", "a", "n", " ",
    "E", "c", "o", "n", "o", "m", "i", "c", " ", "A", "r", "e", "a", " ",
    "w", "a", "s", " ", "s", "i", "g", "n", "e", "d", " ", "i", "n", " ",
    "A", "u", "g", "u", "s", "t", " ", "1", "9", "9", "2", " ", ".">>

\* the accented letters are written by their base letters; none is a space
sentence_fr ==
  <<"L", " ", "a", "c", "c", "o", "r", "d", " ", "s", "u", "r", " ", "l", "a", " ",
    "z", "o", "n", "e", " ", "e", "c", "o", "n", "o", "m", "i", "q", "u", "e", " ",
    "e", "u", "r", "o", "p", "e", "e", "n", "n", "e", " ", "a", " ",
    "e", "t", "e", " ", "s", "i", "g", "n", "e", " ", "e", "n", " ",
    "a", "o", "u", "t", " ", "1", "9", "9", "2", " ", ".">>

\* the notebook after cell 3: embedded_fr and embedded_en have one row per
\* token of their sentence and 300 columns; their entries are not kept
InitNotebook ==
  /\ run = "notebook"
  /\ LET tokenized_en == tokenize(sentence_en, en_words)
         tokenized_fr == tokenize(sentence_fr, fr_words)
     IN  /\ queries = ExampleArray(Len(tokenized_fr), 300)
         /\ keys = ExampleArray(Len(tokenized_en), 300)
         /\ values = ExampleArray(Len(tokenized_en), 300)
  /\ embeddings = EmptyArray
  /\ cell = 4

Init ==
  /\ InitCall \/ InitNotebook
  /\ alignment = NotCalled
  /\ attention_qkv_result = NotCalled
  /\ printed = NoOutput
  /\ sentence = <<>> /\ tokenized = <<>> /\ embedded = EmptyArray
  /\ NoScaled /\ NoSoftmax /\ NoCallers

\* calculate_weights that divides queries by sqrt(d) in place
CalculateWeights_inplace ==
  /\ run = "call"
  /\ cell = 3
  /\ queries' = [queries EXCEPT !.a =
                   [i \in 1..queries.rows |-> [j \in 1..queries.cols |->
                      FDiv(queries.a[i][j], FSqrtInt(queries.cols))]]]
  /\ alignment' = calculate_weights(queries', keys)
  /\ cell' = 4
  /\ UNCHANGED <<run, keys, values, attention_qkv_result, printed>>
  /\ UNCHANGED <<scaledVars, softmaxVars, tokenizeVars, callerVars>>

\* alignment = calculate_weights(embedded_fr, embedded_en)
CalculateWeights ==
  /\ run = "call"
  /\ cell = 3
  /\ alignment' = calculate_weights(queries, keys)
  /\ cell' = 4
  /\ UNCHANGED <<run, queries, keys, values, attention_qkv_result, printed>>
  /\ UNCHANGED <<scaledVars, softmaxVars, tokenizeVars, callerVars>>

\* attention_qkv_result = attention_qkv(embedded_fr, embedded_en, embedded_en)
AttentionQKV ==
  /\ run = "call"
  /\ cell = 4
  /\ attention_qkv_result' = attention_qkv(queries, keys, values)
  /\ cell' = 5
  /\ UNCHANGED <<run, queries, keys, values, alignment, printed>>
  /\ UNCHANGED <<scaledVars, softmaxVars, tokenizeVars, callerVars>>

\* cell 4 on the notebook's own data: what the notebook recorded
Cell4OnExample ==
  /\ run = "notebook"
  /\ cell = 4
  /\ printed' = RecordedOutput
  /\ cell' = 5
  /\ UNCHANGED <<run, queries, keys, values, alignment, attention_qkv_result>>
  /\ UNCHANGED <<scaledVars, softmaxVars, tokenizeVars, callerVars>>

Next == CalculateWeights \/ AttentionQKV \/ Cell4OnExample

Spec == Init /\ [][Next]_vars

\* ------------------------------------------------------------ tokenize and embed
MaxChars == 4

\* the characters of the sentences: two letters, one of them in upper case too,
\* and the space
Chars == {"a", "b", "B", " "}
SentenceStrings == UNION {[1..l -> Chars] : l \in 0..MaxChars}

InitTokenize ==
  /\ run = "tokenize"
  /\ cell = 1
  /\ sentence \in SentenceStrings
  /\ \E d \in 1..MaxD : embeddings = en_embeddings(d)
  /\ tokenized = <<>>
  /\ embedded = EmptyArray
  /\ NoCalls /\ NoScaled /\ NoSoftmax /\ NoCallers

\* tokenized_en = tokenize(sentence_en, en_words)
Tokenize ==
  /\ run = "tokenize"
  /\ cell = 1
  /\ tokenized' = tokenize(sentence, en_words)
  /\ cell' = 2
  /\ UNCHANGED <<run, sentence, embeddings, embedded>>
  /\ UNCHANGED <<callVars, scaledVars, softmaxVars, callerVars>>

\* embedded_en = embed(tokenized_en, en_embeddings)
Embed ==
  /\ run = "tokenize"
  /\ cell = 2
  /\ embedded' = embed(tokenized, embeddings)
  /\ cell' = 3
  /\ UNCHANGED <<run, sentence, embeddings, tokenized>>
  /\ UNCHANGED <<callVars, scaledVars, softmaxVars, callerVars>>

NextTokenize == Tokenize \/ Embed

SpecTokenize == InitTokenize /\ [][NextTokenize]_vars

\* ------------------------------------------------------------ scaled arguments
\* the constants the arguments are multiplied by: 1/2, 9/10 and 5/4
Factors == {Fin(Scale \div 2), Fin((9 * Scale) \div 10), Fin((5 * Scale) \div 4)}

\* an array that is not multiplied
ScaleBy_nothing(x, c) == x

\* c * x, entry by entry
ScaleBy(x, c) ==
  [rows |-> x.rows, cols |-> x.cols,
   a |-> [i \in 1..x.rows |-> [j \in 1..x.cols |-> FMul(x.a[i][j], c)]]]

\* queries and keys of one feature dimension, and a constant; the queries
\* that hold the large word are multiplied by 9/10 only, which leaves its
\* scores beyond the thresholds of exp
InitScaled ==
  /\ run = "call"
  /\ cell = 3
  /\ \E tq \in Sentences, tk \in Sentences, d \in 1..MaxD, c \in Factors, large \in BOOLEAN :
       /\ large => c = Fin((9 * Scale) \div 10)
       /\ queries = embed(tq, IF large THEN fr_embeddings(d) ELSE en_embeddings(d))
       /\ keys = embed(tk, en_embeddings(d))
       /\ values = embed(tk, en_embeddings(d))
       /\ factor = c
  /\ alignment = NotCalled
  /\ attention_qkv_result = NotCalled
  /\ printed = NoOutput
  /\ scaled_alignment = NotCalled
  /\ NoSoftmax /\ NoTokenize /\ NoCallers

\* calculate_weights(c * queries, c * keys)
ScaledWeights ==
  /\ run = "call"
  /\ cell = 4
  /\ scaled_alignment' = calculate_weights(ScaleBy(queries, factor), ScaleBy(keys, factor))
  /\ cell' = 5
  /\ UNCHANGED <<run, callVars, factor, softmaxVars, tokenizeVars, callerVars>>

NextScaled == CalculateWeights \/ ScaledWeights

SpecScaled == InitScaled /\ [][NextScaled]_vars

\* ------------------------------------------------------------ softmax by itself
\* the arguments x: every array of 1..MaxLen rows and 1..MaxD columns whose
\* entries are -1, 0 or 1
Entries == {Fin(-Scale), Zero, One}
Arrays(m, n) == {[rows |-> m, cols |-> n, a |-> f] : f \in [1..m -> [1..n -> Entries]]}

InitSoftmax ==
  /\ run = "softmax"
  /\ cell = 1
  /\ \E m \in 1..MaxLen, n \in 1..MaxD : softmax_x \in Arrays(m, n)
  /\ softmax_axis = 0
  /\ softmax_out = NotCalled
  /\ NoCalls /\ NoScaled /\ NoTokenize /\ NoCallers

\* softmax(x, axis) with axis 0, the default, or 1
Softmax ==
  /\ run = "softmax"
  /\ cell = 1
  /\ \E ax \in {0, 1} :
       /\ softmax_axis' = ax
       /\ softmax_out' = softmax(softmax_x, ax)
  /\ cell' = 2
  /\ UNCHANGED <<run, softmax_x, callVars, scaledVars, tokenizeVars, callerVars>>

NextSoftmax == Softmax

SpecSoftmax == InitSoftmax /\ [][NextSoftmax]_vars

\* ------------------------------------------------------------ concurrent callers
NCallers == 2
Callers == 1..NCallers

\* the arguments a caller may pass: valid ones, and ones whose feature
\* dimensions differ
CallerArgs ==
  {[queries |-> embed(tq, fr_embeddings(d)),
    keys |-> embed(tk, en_embeddings(MaxD)),
    values |-> embed(tk, en_embeddings(MaxE))] :
     tq \in {<<0>>, <<1>>, <<-1, 1>>}, tk \in {<<1>>, <<0, 1>>}, d \in {1, MaxD}}

InitCallers ==
  /\ run = "callers"
  /\ cell = 0
  /\ caller_args \in [Callers -> CallerArgs]
  /\ caller_pc = [c \in Callers |-> "dot"]
  /\ caller_dot = [c \in Callers |-> EmptyArray]
  /\ caller_weights = [c \in Callers |-> EmptyArray]
  /\ caller_result = [c \in Callers |-> NotCalled]
  /\ NoCalls /\ NoScaled /\ NoSoftmax /\ NoTokenize

\* a caller whose call raised e
CallerRaises(c, e) ==
  /\ caller_result' = [caller_result EXCEPT ![c] = Raise(e)]
  /\ caller_pc' = [caller_pc EXCEPT ![c] = "done"]

\* dot = np.dot(queries, keys.T)
CallerDot(c) ==
  /\ caller_pc[c] = "dot"
  /\ LET dot == np_dot(caller_args[c].queries, Transpose(caller_args[c].keys))
     IN  IF dot.status # "ok"
         THEN CallerRaises(c, dot.err) /\ UNCHANGED caller_dot
         ELSE /\ caller_dot' = [caller_dot EXCEPT ![c] = dot.val]
              /\ caller_pc' = [caller_pc EXCEPT ![c] = "softmax"]
              /\ UNCHANGED caller_result
  /\ UNCHANGED <<run, cell, caller_args, caller_weights>>
  /\ UNCHANGED <<callVars, scaledVars, softmaxVars, tokenizeVars>>

\* weights = softmax(dot, axis=1), kept in one variable all callers share
CallerSoftmax_shared(c) ==
  /\ caller_pc[c] = "softmax"
  /\ LET weights == softmax(caller_dot[c], 1)
     IN  IF weights.status # "ok"
         THEN CallerRaises(c, weights.err) /\ UNCHANGED caller_weights
         ELSE /\ caller_weights' = [x \in Callers |-> weights.val]
              /\ caller_pc' = [caller_pc EXCEPT ![c] = "assert"]
              /\ UNCHANGED caller_result
  /\ UNCHANGED <<run, cell, caller_args, caller_dot>>
  /\ UNCHANGED <<callVars, scaledVars, softmaxVars, tokenizeVars>>

\* weights = softmax(dot, axis=1)
CallerSoftmax(c) ==
  /\ caller_pc[c] = "softmax"
  /\ LET weights == softmax(caller_dot[c], 1)
     IN  IF weights.status # "ok"
         THEN CallerRaises(c, weights.err) /\ UNCHANGED caller_weights
         ELSE /\ caller_weights' = [caller_weights EXCEPT ![c] = weights.val]
              /\ caller_pc' = [caller_pc EXCEPT ![c] = "assert"]
              /\ UNCHANGED caller_result
  /\ UNCHANGED <<run, cell, caller_args, caller_dot>>
  /\ UNCHANGED <<callVars, scaledVars, softmaxVars, tokenizeVars>>

\* assert weights.sum(axis=1)[0] == 1; return weights
CallerAssert(c) ==
  /\ caller_pc[c] = "assert"
  /\ LET checked == AssertRowZero(caller_weights[c])
     IN  IF checked.status # "ok"
         THEN CallerRaises(c, checked.err)
         ELSE /\ caller_pc' = [caller_pc EXCEPT ![c] = "attention"]
              /\ UNCHANGED caller_result
  /\ UNCHANGED <<run, cell, caller_args, caller_dot, caller_weights>>
  /\ UNCHANGED <<callVars, scaledVars, softmaxVars, tokenizeVars>>

\* attention = np.dot(weights, values); return attention
CallerAttention(c) ==
  /\ caller_pc[c] = "attention"
  /\ caller_result' = [caller_result EXCEPT ![c] =
                         np_dot(caller_weights[c], caller_args[c].values)]
  /\ caller_pc' = [caller_pc EXCEPT ![c] = "done"]
  /\ UNCHANGED <<run, cell, caller_args, caller_dot, caller_weights>>
  /\ UNCHANGED <<callVars, scaledVars, softmaxVars, tokenizeVars>>

NextCallers ==
  \E c \in Callers :
    CallerDot(c) \/ CallerSoftmax(c) \/ CallerAssert(c) \/ CallerAttention(c)

SpecCallers == InitCallers /\ [][NextCallers]_vars

\* ------------------------------------------------------------ properties
\* the shapes the specification calls valid
ValidQK == queries.rows >= 1 /\ keys.rows >= 1 /\ queries.cols = keys.cols
ValidQKV == ValidQK /\ values.rows = keys.rows

\* an array's entries are laid out as its shape says
WellShaped(x) ==
  /\ Len(x.a) = x.rows
  /\ \A i \in 1..x.rows : Len(x.a[i]) = x.cols

\* the error kinds of the specification the code's exceptions stand for:
\* numpy's ValueError is its shape mismatch, IndexError its missing row 0;
\* the failed assert has no counterpart
ErrorKind(r) ==
  IF r.status # "error" THEN "none"
  ELSE IF r.err = "ValueError" THEN "ShapeMismatch"
  ELSE IF r.err = "IndexError" THEN "EmptyInput"
  ELSE r.err

\* queries keys^T / sqrt(d), the scores the specification softmaxes
ScaledScores(q, k) ==
  LET dot == np_dot(q, Transpose(k)).val
  IN  [rows |-> dot.rows, cols |-> dot.cols,
       a |-> [i \in 1..dot.rows |-> [j \in 1..dot.cols |->
                FDiv(dot.a[i][j], FSqrtInt(k.cols))]]]

\* every score the arguments produce is within the series' domain or, also
\* after division by sqrt(d), beyond exp's thresholds
ScoresInCarrier ==
  (run = "call" /\ queries.cols = keys.cols) =>
    LET dot == np_dot(queries, Transpose(keys)).val
    IN  \A i \in 1..dot.rows : \A j \in 1..dot.cols :
          \/ Abs(dot.a[i][j].v) <= ExpDomain * Scale
          \/ Abs(FDiv(dot.a[i][j], FSqrtInt(keys.cols)).v) > 745 * Scale

\* C1: for valid queries and keys, the weights calculate_weights returns are an
\* (m, n) array whose entries are all within [0, 1] and whose rows each sum to
\* 1.0 within the tolerance (one unit of the carrier per entry).
C1_WeightsAreDistributions ==
  (ValidQK /\ alignment.status = "ok") =>
    /\ alignment.val.rows = queries.rows
    /\ alignment.val.cols = keys.rows
    /\ \A i \in 1..alignment.val.rows :
         /\ \A j \in 1..alignment.val.cols :
              /\ IsFin(alignment.val.a[i][j])
              /\ alignment.val.a[i][j].v >= 0
              /\ alignment.val.a[i][j].v <= Scale
         /\ IsFin(FSum(alignment.val.a[i]))
         /\ Abs(FSum(alignment.val.a[i]).v - Scale) <= alignment.val.cols

\* C2: for valid queries and keys, the weights calculate_weights returns are the
\* row-wise softmax of the scores divided by sqrt(d).
C2_ScoresScaledBySqrtD ==
  (ValidQK /\ alignment.status = "ok") =>
    alignment.val = softmax(ScaledScores(queries, keys), 1).val

\* C3: whenever attention_qkv returns, its result is the matrix product of the
\* weights calculate_weights gives for the same queries and keys and the values:
\* entry (i, c) is the sum over j of weights[i][j] * values[j][c].
C3_AttentionIsWeightsTimesValues ==
  attention_qkv_result.status = "ok" =>
    /\ alignment.status = "ok"
    /\ WellShaped(attention_qkv_result.val)
    /\ \A i \in 1..attention_qkv_result.val.rows :
         \A c \in 1..attention_qkv_result.val.cols :
           attention_qkv_result.val.a[i][c] =
             FSum([j \in 1..values.rows |->
                     FMul(alignment.val.a[i][j], values.a[j][c])])

\* C3 witness: a returned product of two unequal weights with two unequal value rows
C3_Witness ==
  /\ attention_qkv_result.status = "ok"
  /\ queries.rows = 2
  /\ keys.rows = 2
  /\ alignment.val.a[1][1] # alignment.val.a[1][2]
  /\ alignment.val.a[1][1].v > 0
  /\ alignment.val.a[1][2].v > 0
  /\ values.a[1] # values.a[2]

\* C4: whenever attention_qkv returns, the shape of its result is
\* (rows of queries, columns of values).
C4_AttentionShape ==
  attention_qkv_result.status = "ok" =>
    /\ attention_qkv_result.val.rows = queries.rows
    /\ attention_qkv_result.val.cols = values.cols
    /\ WellShaped(attention_qkv_result.val)

\* C4 witness: a result whose shape differs from that of every argument
C4_Witness ==
  /\ attention_qkv_result.status = "ok"
  /\ queries.rows = 2
  /\ keys.rows = 1
  /\ queries.cols = 1
  /\ values.cols = 2

\* C5: calculate_weights raises the shape-mismatch error (numpy's ValueError),
\* and returns no weights, whenever the columns of queries and keys differ.
C5_DimMismatchRaises ==
  (alignment.status # "none" /\ queries.cols # keys.cols) =>
    /\ alignment = Raise("ValueError")
    /\ ErrorKind(alignment) = "ShapeMismatch"

\* C5 witness: a call with non-empty arguments of different feature dimensions
C5_Witness ==
  /\ alignment.status # "none"
  /\ queries.rows >= 1
  /\ keys.rows >= 1
  /\ queries.cols # keys.cols

C7_RowMismatchRaises ==
  (attention_qkv_result.status # "none" /\ ValidQK /\ keys.rows # values.rows) =>
    ErrorKind(attention_qkv_result) = "ShapeMismatch"

\* C8: the weights calculate_weights returns for valid queries and keys hold no
\* NaN and no infinity, however large the scores.
C8_NoNaNOrInf ==
  (ValidQK /\ alignment.status = "ok") =>
    \A i \in 1..alignment.val.rows : \A j \in 1..alignment.val.cols :
      IsFin(alignment.val.a[i][j])

\* C9: with one query row and one key and value row, calculate_weights returns
\* exactly [[1.0]] and attention_qkv returns the value row.
C9_SingleRowYieldsOne ==
  (attention_qkv_result.status # "none" /\ ValidQKV
     /\ queries.rows = 1 /\ keys.rows = 1) =>
    /\ alignment = Ok([rows |-> 1, cols |-> 1, a |-> << <<One>> >>])
    /\ attention_qkv_result = Ok(values)

\* C10: on the worked example cell 4 prints the shape (14, 300) and, for rows
\* 0..1 and columns 0..9, the documented values to within 1e-6.
C10_ExampleMatchesExpected ==
  printed # NoOutput =>
    /\ printed.shape = ExpectedOutput.shape
    /\ \A i \in 1..2 : \A j \in 1..10 :
         Abs(printed.elements[i][j] - ExpectedOutput.elements[i][j]) <= 100

\* ------------------------------------------------------------ tokenize, embed
\* the positions of the spaces of a sentence, and its pieces between them
SpacesOf(s) == {p \in 1..Len(s) : s[p] = " "}
NthSpace(s, n) ==
  IF n = 0 THEN 0
  ELSE IF n > Cardinality(SpacesOf(s)) THEN Len(s) + 1
  ELSE CHOOSE p \in SpacesOf(s) : Cardinality({q \in SpacesOf(s) : q < p}) = n - 1
Piece(s, i) == SubSeq(s, NthSpace(s, i - 1) + 1, NthSpace(s, i) - 1)
IndexOf(word, token_mapping) ==
  IF lower(word) \in DOMAIN token_mapping THEN token_mapping[lower(word)] ELSE -1

\* C11: a word that is not a key of the vocabulary is tokenized as -1, and
\* embed turns the token -1 into a row of zeros that has as many entries as
\* the embedding matrix has columns.
C11_UnknownWordIsZeroRow ==
  (run = "tokenize" /\ cell >= 2) =>
    \A i \in 1..(Cardinality(SpacesOf(sentence)) + 1) :
      lower(Piece(sentence, i)) \notin DOMAIN en_words =>
        /\ i \in DOMAIN tokenized
        /\ tokenized[i] = -1
        /\ cell = 3 =>
             /\ i \in DOMAIN embedded.a
             /\ Len(embedded.a[i]) = embeddings.cols
             /\ \A j \in 1..embeddings.cols : embedded.a[i][j] = Zero

\* a known word and an unknown one, embedded with two columns
C11_Witness ==
  /\ run = "tokenize" /\ cell = 3
  /\ sentence = <<"B", " ", "b", "a">>
  /\ tokenized = <<1, -1>>
  /\ embeddings.cols = 2
  /\ embedded.a = << <<Fin(-Scale), Zero>>, <<Zero, Zero>> >>

\* ------------------------------------------------------------ scaled arguments
\* the raw scores of the arguments, and of the multiplied arguments
RawScores == np_dot(queries, Transpose(keys)).val
RawScoresScaled == np_dot(ScaleBy(queries, factor), Transpose(ScaleBy(keys, factor))).val

BothReturned ==
  /\ run = "call" /\ cell = 5
  /\ alignment.status = "ok" /\ scaled_alignment.status = "ok"

\* row i has two different scores, and exp neither overflows nor underflows
\* on any score of the row, multiplied or not
UnequalModerateRow(i) ==
  /\ \E j, k \in 1..keys.rows : RawScores.a[i][j] # RawScores.a[i][k]
  /\ \A j \in 1..keys.rows :
       /\ Abs(RawScores.a[i][j].v) <= ExpDomain * Scale
       /\ Abs(RawScoresScaled.a[i][j].v) <= ExpDomain * Scale

NearOne(x) == IsFin(x) /\ Abs(x.v - Scale) <= MaxLen + MaxD

SoftmaxReturned == run = "softmax" /\ cell = 2

\* C13: softmax(x, axis) returns an array of the shape of x whose columns sum
\* to 1 when axis is 0 and whose rows sum to 1 when axis is 1, whatever the
\* shape of x.
C13_SoftmaxNormalizesAxis ==
  SoftmaxReturned =>
    /\ softmax_out.status = "ok"
    /\ softmax_out.val.rows = softmax_x.rows
    /\ softmax_out.val.cols = softmax_x.cols
    /\ \A t \in 1..Len(np_sum(softmax_out.val, softmax_axis)) :
         NearOne(np_sum(softmax_out.val, softmax_axis)[t])

\* ------------------------------------------------------------ frame
\* C14: no step of calculate_weights or attention_qkv, returning or raising,
\* changes queries, keys, values or the embedding matrix the keys were built
\* from, nor anything else than the result the call assigns.
C14_InputsUnchanged ==
  [][/\ queries' = queries /\ keys' = keys /\ values' = values
     /\ embeddings' = embeddings
     /\ embedded' = embedded /\ factor' = factor
     /\ (alignment' # alignment => attention_qkv_result' = attention_qkv_result)]_vars

\* calculate_weights returned and attention_qkv raised, on the same arguments
C14_Witness ==
  /\ run = "call" /\ cell = 5
  /\ alignment.status = "ok"
  /\ attention_qkv_result.status = "error"
  /\ queries.cols = 2
  /\ \E i \in 1..queries.rows : queries.a[i][1] = Fin(Big * Scale)
  /\ embeddings = en_embeddings(2)

\* ------------------------------------------------------------ concurrent callers
\* C15: however the steps of concurrent callers interleave, a caller whose
\* call has ended holds what attention_qkv gives on its own arguments alone,
\* and until then its local variables hold what its own arguments give.
C15_CallersAreIndependent ==
  run = "callers" =>
    \A c \in Callers :
      LET q == caller_args[c].queries
          k == caller_args[c].keys
          v == caller_args[c].values
      IN  /\ caller_pc[c] = "done" => caller_result[c] = attention_qkv(q, k, v)
          /\ caller_pc[c] \in {"assert", "attention"} =>
               caller_weights[c] = softmax(np_dot(q, Transpose(k)).val, 1).val

\* two callers with arguments of different shapes, both returned, with
\* different results
C15_Witness ==
  /\ run = "callers"
  /\ caller_pc[1] = "done" /\ caller_pc[2] = "done"
  /\ caller_result[1].status = "ok" /\ caller_result[2].status = "ok"
  /\ caller_args[1].queries.rows = 1 /\ caller_args[2].queries.rows = 2
  /\ caller_args[1].keys.rows = 2 /\ caller_args[2].keys.rows = 1
  /\ caller_result[1] # caller_result[2]

\* ------------------------------------------------------------ the worked example
\* C16: in the worked example queries is 14 x 300, and keys and values are
\* 11 x 300.
C16_ExampleShapes ==
  run = "notebook" =>
    /\ queries.rows = 14 /\ queries.cols = 300
    /\ keys.rows = 11 /\ keys.cols = 300
    /\ values.rows = 11 /\ values.cols = 300

\* C16, amended: in the worked example queries is 14 x 300, and keys and
\* values are 13 x 300, one row for each of the 13 pieces of sentence_en.
C16_ExampleShapes13 ==
  run = "notebook" =>
    /\ queries.rows = 14 /\ queries.cols = 300
    /\ keys.rows = 13 /\ keys.cols = 300
    /\ values.rows = 13 /\ values.cols = 300
    /\ Cardinality(SpacesOf(sentence_en)) = 12
    /\ Cardinality(SpacesOf(sentence_fr)) = 13

\* cell 4 has run on the example
C16_Witness ==
  /\ run = "notebook" /\ cell = 5
  /\ printed.shape = <<queries.rows, values.cols>>
  /\ keys.rows = Len(split(sentence_en))

\* ------------------------------------------------------------ unknown words
\* row i of x holds zeros only
ZeroRow(x, i) == \A j \in 1..x.cols : x.a[i][j] = Zero

BothCalled == run = "call" /\ cell = 5

\* C17: a row of zeros is no error: when the first query row is all zeros and
\* the shapes are valid, calculate_weights and attention_qkv return; and the
\* raw score of a query row and a key row is 0 when either is all zeros.
C17_ZeroRowIsNoError ==
  (BothCalled /\ ValidQKV) =>
    /\ ZeroRow(queries, 1) =>
         alignment.status = "ok" /\ attention_qkv_result.status = "ok"
    /\ \A i \in 1..queries.rows : \A j \in 1..keys.rows :
         (ZeroRow(queries, i) \/ ZeroRow(keys, j)) => RawScores.a[i][j] = Zero

\* the mean of column c of the value rows
MeanOfValues(c) ==
  FDiv(FSum([j \in 1..values.rows |-> values.a[j][c]]), Fin(values.rows * Scale))

C20_AssertionHolds ==
  (run = "call" /\ cell >= 4 /\ ValidQK) =>
    /\ alignment.status = "ok"
    /\ \A i \in 1..alignment.val.rows : FEq(np_sum(alignment.val, 1)[i], One)

\* ------------------------------------------------------------ the length of tokenize
\* C19: tokenize returns one entry more than the sentence has spaces, so at
\* least one, the empty sentence and leading, trailing and repeated spaces
\* included; entry i is the index of the lower-cased piece i in the
\* vocabulary, or -1; and embed of it has that many rows, never zero.
C19_OneTokenPerPiece ==
  (run = "tokenize" /\ cell >= 2) =>
    /\ Len(tokenized) = Cardinality(SpacesOf(sentence)) + 1
    /\ Len(tokenized) >= 1
    /\ \A i \in 1..Len(tokenized) :
         tokenized[i] = IndexOf(Piece(sentence, i), en_words)
    /\ cell = 3 =>
         /\ embedded.rows = Len(tokenized)
         /\ embedded.rows >= 1
         /\ Len(embedded.a) = embedded.rows

\* a sentence with a leading space, and two spaces at its end
C19_Witness ==
  /\ run = "tokenize" /\ cell = 3
  /\ sentence = <<" ", "B", " ", " ">>
  /\ tokenized = <<-1, 1, -1, -1>>
  /\ embedded.rows = 4

====
